---- MODULE Spec2Model ----
(***************************************************************************)
(* Model of sleep_ema_demo.py: the sleep-deviation triggered EMA pipeline. *)
(*                                                                         *)
(* Numbers.  Python floats are modelled as exact rationals <<n, d>> with   *)
(* d > 0, kept in lowest terms.  Exceptions are modelled as values: every  *)
(* function returns a record whose field exc names the exception raised    *)
(* ("none" when it returns normally).                                      *)
(***************************************************************************)
EXTENDS Integers, Sequences, FiniteSets, TLC

VARIABLES
    tokens,       \* cfg["oura_api_tokens"]: the patients' tokens, in insertion order
    qualtrics,    \* cfg["qualtrics"]: [has_token, api_token]
    dry_flag,     \* run_once's dry_flag (--dry)
    deviation,    \* the deviation threshold in percent (--deviation)
    min_hours,    \* the minimum-hours threshold (--min-hours)
    pc,           \* position of the run
    idx,          \* index of the patient being processed (1-based)
    recs,         \* run_once's local recs
    hours,        \* run_once's local hours
    ret,          \* value or exception of the last function applied
    dry,          \* send_qualtrics_survey's local dry
    outcome,      \* per patient: what happened to the patient in this run
    ouraCalls,    \* per patient: requests.get calls made to the sleep provider
    posts,        \* per patient: requests.post calls made, in order
    evaluated,    \* per patient: should_trigger has returned for the patient
    error,        \* the exception that left run_once, with the patient it came from
    given         \* the argument as the caller passed it (pure-function checks)

vars == <<tokens, qualtrics, dry_flag, deviation, min_hours, pc, idx, recs, hours,
          ret, dry, outcome, ouraCalls, posts, evaluated, error, given>>

----------------------------------------------------------------------------
(* Bounds of the model *)

MaxPatients == 2
MaxHead == 3
MaxTail == 7
MaxLen == 9

(* Program constants *)

MinNights == 8
KeepNights == 8
SecondsPerHour == 3600
Hundred == 100

----------------------------------------------------------------------------
(* Exact rational arithmetic, standing for Python's float arithmetic *)

RECURSIVE GCD(_, _)
GCD(a, b) ==
    IF b = 0 THEN a ELSE GCD(b, a % b)

Abs(n) ==
    IF n < 0 THEN -n ELSE n

Rat(n, d) ==
    LET g == GCD(Abs(n), Abs(d))
        s == IF d < 0 THEN -1 ELSE 1
    IN  IF n = 0 THEN <<0, 1>> ELSE <<s * (n \div g), s * (d \div g)>>

RInt(n) ==
    <<n, 1>>

RAdd(a, b) ==
    Rat(a[1] * b[2] + b[1] * a[2], a[2] * b[2])

RSub(a, b) ==
    Rat(a[1] * b[2] - b[1] * a[2], a[2] * b[2])

RMul(a, b) ==
    Rat(a[1] * b[1], a[2] * b[2])

RAbs(a) ==
    <<Abs(a[1]), a[2]>>

RLt(a, b) ==
    a[1] * b[2] < b[1] * a[2]

RIsZero(a) ==
    a[1] = 0

RECURSIVE RSum(_)
RSum(s) ==
    IF s = <<>> THEN RInt(0) ELSE RAdd(s[1], RSum(Tail(s)))

(* Results of a function: a value or an exception *)

Return(v) ==
    [exc |-> "none", val |-> v]

Raise(e) ==
    [exc |-> e, val |-> <<>>]

NoRet == Raise("unset")

(* a / b in Python: ZeroDivisionError when b is 0 *)
TrueDiv(a, b) ==
    IF RIsZero(b) THEN Raise("ZeroDivisionError")
    ELSE Return(Rat(a[1] * b[2], a[2] * b[1]))

(* statistics.mean: StatisticsError on an empty sequence *)
Mean(s) ==
    IF Len(s) = 0 THEN Raise("StatisticsError")
    ELSE Return(RMul(RSum(s), Rat(1, Len(s))))

(* s[-1]: IndexError on an empty list *)
LastOf(s) ==
    IF Len(s) = 0 THEN Raise("IndexError") ELSE Return(s[Len(s)])

(* s[:-1] *)
AllButLast(s) ==
    IF Len(s) = 0 THEN <<>> ELSE SubSeq(s, 1, Len(s) - 1)

(* s[-n:] *)
LastN(s, n) ==
    IF Len(s) <= n THEN s ELSE SubSeq(s, Len(s) - n + 1, Len(s))

----------------------------------------------------------------------------
(* Raw records.  A record is a dict or some other JSON value; a dict has a  *)
(* set of keys, and the fields below are read only for the keys it has.     *)

NonDict ==
    [isdict |-> FALSE, keys |-> {}, type |-> "", total_sleep_duration |-> 0, day |-> 0]

Dict(keys, type, dur, day) ==
    [isdict |-> TRUE, keys |-> keys,
     type |-> IF "type" \in keys THEN type ELSE "",
     total_sleep_duration |-> IF "total_sleep_duration" \in keys THEN dur ELSE 0,
     day |-> IF "day" \in keys THEN day ELSE 0]

AllKeys == {"type", "total_sleep_duration", "day"}

LongSleep(dur, day) ==
    Dict(AllKeys, "long_sleep", dur, day)

(* rec.get("type") *)
GetType(rec) ==
    IF "type" \in rec.keys THEN rec.type ELSE "None"

----------------------------------------------------------------------------
(* nightly_totals *)

QualifiesNoTypeCheck(rec) ==
    /\ rec.isdict
    /\ "total_sleep_duration" \in rec.keys

Qualifies(rec) ==
    /\ rec.isdict
    /\ GetType(rec) = "long_sleep"
    /\ "total_sleep_duration" \in rec.keys

ToHours(seconds) ==
    Rat(seconds, SecondsPerHour)

NightlyTotalsFirst(records) ==
    LET clean == SelectSeq(records, Qualifies)
        all == [i \in 1..Len(clean) |-> ToHours(clean[i].total_sleep_duration)]
    IN  IF Len(all) <= KeepNights THEN all ELSE SubSeq(all, 1, KeepNights)

NightlyTotals(records) ==
    LET clean == SelectSeq(records, Qualifies)
        all == [i \in 1..Len(clean) |-> ToHours(clean[i].total_sleep_duration)]
    IN  LastN(all, KeepNights)

----------------------------------------------------------------------------
(* should_trigger *)

PyBool(b) ==
    [t |-> "bool", b |-> b, f |-> RInt(0)]

PyFloat(f) ==
    [t |-> "float", b |-> FALSE, f |-> f]

(* Python's truth value of a bool or a float *)
Truthy(v) ==
    IF v.t = "bool" THEN v.b ELSE ~RIsZero(v.f)

(* abs(last - baseline) / baseline * 100 if baseline else 0 *)
PctChangeUnguarded(last, baseline) ==
    LET q == TrueDiv(RAbs(RSub(last, baseline)), baseline)
    IN  IF q.exc # "none" THEN q ELSE Return(RMul(q.val, RInt(Hundred)))

PctChange(last, baseline) ==
    IF ~RIsZero(baseline)
    THEN LET q == TrueDiv(RAbs(RSub(last, baseline)), baseline)
         IN  IF q.exc # "none" THEN q ELSE Return(RMul(q.val, RInt(Hundred)))
    ELSE Return(RInt(0))

(* last < min_hours or pct_change > deviation_pct and pct_change *)
TriggerExpr(last, pct_change, deviation_pct, min_hrs) ==
    IF RLt(last, min_hrs) THEN PyBool(TRUE)
    ELSE IF ~RLt(deviation_pct, pct_change) THEN PyBool(FALSE)
    ELSE PyFloat(pct_change)

EvalResult(exc, val, computed) ==
    [exc |-> exc, val |-> val, computed |-> computed]

TooFewOffByOne(hrs) ==
    Len(hrs) < MinNights - 1

TooFew(hrs) ==
    Len(hrs) < MinNights

ShouldTrigger(hrs, deviation_pct, min_hrs) ==
    IF TooFew(hrs) THEN EvalResult("ValueError", PyBool(FALSE), {})
    ELSE LET last == hrs[Len(hrs)]
             baseline == Mean(AllButLast(hrs)).val
             pct == PctChange(last, baseline)
         IN  IF pct.exc # "none"
             THEN EvalResult(pct.exc, PyBool(FALSE), {"last", "baseline"})
             ELSE EvalResult("none",
                             TriggerExpr(last, pct.val, deviation_pct, min_hrs),
                             {"last", "baseline", "pct_change"})

(* run_once's own metrics, lines 168-172 *)
Metrics(hrs) ==
    IF LastOf(hrs).exc # "none" THEN Raise("IndexError")
    ELSE LET last == hrs[Len(hrs)]
             m == Mean(AllButLast(hrs))
         IN  IF m.exc # "none" THEN Raise("StatisticsError")
             ELSE LET pct == PctChange(last, m.val)
                  IN  IF pct.exc # "none" THEN pct
                      ELSE Return([last |-> last, baseline |-> m.val,
                                   pct_change |-> pct.val])

----------------------------------------------------------------------------
(* Configuration *)

DUMMY == <<"x", "x", "x">>

None == [isnone |-> TRUE, s |-> <<>>]

Str(s) ==
    [isnone |-> FALSE, s |-> s]

(* token.startswith(DUMMY) *)
StartsWithExact(tok, prefix) ==
    tok.s = prefix

StartsWith(tok, prefix) ==
    /\ Len(tok.s) >= Len(prefix)
    /\ SubSeq(tok.s, 1, Len(prefix)) = prefix

(* not token *)
Falsy(tok) ==
    tok.isnone \/ tok.s = <<>>

OuraTokenPool ==
    {None, Str(<<>>), Str(DUMMY \o <<"1">>), Str(<<"t", "o", "k">>)}

QualtricsPool ==
    {[has_token |-> FALSE, api_token |-> None],
     [has_token |-> TRUE, api_token |-> Str(DUMMY)],
     [has_token |-> TRUE, api_token |-> Str(DUMMY \o <<"1">>)],
     [has_token |-> TRUE, api_token |-> Str(<<"k", "e", "y">>)]}

DeviationPool == {RInt(-1), RInt(25)}

MinHoursPool == {RInt(4)}

(* load_config: the skeleton when config.json is missing *)
LoadConfig(exists, file) ==
    IF ~exists
    THEN [oura_api_tokens |-> <<Str(DUMMY)>>,
          qualtrics |-> [has_token |-> TRUE, api_token |-> Str(DUMMY)]]
    ELSE file

(* cfg.get("oura_api_tokens", {}) or {"sample": DUMMY} *)
TokensOf(cfg) ==
    IF cfg.oura_api_tokens = <<>> THEN <<Str(DUMMY)>> ELSE cfg.oura_api_tokens

SeqsUpTo(S, n) ==
    UNION {[1..k -> S] : k \in 0..n}

ConfigFiles ==
    [oura_api_tokens : SeqsUpTo(OuraTokenPool, MaxPatients), qualtrics : QualtricsPool]

----------------------------------------------------------------------------
(* Data the sleep provider or the bundled sample file may hold *)

Nights(secs) ==
    [i \in 1..Len(secs) |-> LongSleep(secs[i], i)]

HalfHours(k) ==
    k * (SecondsPerHour \div 2)

Hrs7 == HalfHours(14)

Hrs3h == HalfHours(7)

Hrs9h == HalfHours(19)

Hrs5 == HalfHours(10)

Repeat(x, n) ==
    [i \in 1..n |-> x]

Nap(day) ==
    Dict(AllKeys, "rest", Hrs5, day)

Datasets ==
    {Nights(Repeat(Hrs7, n)) : n \in 0..(MinNights - 1)}
    \cup {Nights(Repeat(Hrs7, 7) \o <<Hrs7>>),
          Nights(Repeat(Hrs7, 7) \o <<Hrs3h>>),
          Nights(Repeat(Hrs7, 7) \o <<Hrs9h>>),
          Nights(Repeat(0, 7) \o <<Hrs5>>),
          <<Nap(1)>> \o Nights(Repeat(Hrs7, 5)),
          [i \in 1..9 |-> LongSleep(IF i = 1 THEN Hrs3h ELSE Hrs7, 10 - i)],
          [i \in 1..8 |-> IF i = 3 THEN Dict({"type", "total_sleep_duration"},
                                             "long_sleep", Hrs7, 0)
                          ELSE LongSleep(Hrs7, i)],
          <<NonDict>> \o Nights(Repeat(Hrs7, 7) \o <<Hrs3h>>)}

(* What requests.get / requests.post may come back with *)
HttpOutcomes == {"ok", "http_error", "exception"}

----------------------------------------------------------------------------
(* fetch_sleep_json *)

UseSampleExact(token) ==
    Falsy(token) \/ StartsWithExact(token, DUMMY)

UseSample(token) ==
    Falsy(token) \/ StartsWith(token, DUMMY)

(* sorted(data, key=lambda d: d["day"]): a stable sort *)
RECURSIVE InsertByDay(_, _)
InsertByDay(sorted, rec) ==
    IF sorted = <<>> THEN <<rec>>
    ELSE IF sorted[Len(sorted)].day <= rec.day THEN Append(sorted, rec)
    ELSE Append(InsertByDay(SubSeq(sorted, 1, Len(sorted) - 1), rec),
                sorted[Len(sorted)])

RECURSIVE SortPrefix(_, _)
SortPrefix(data, n) ==
    IF n = 0 THEN <<>> ELSE InsertByDay(SortPrefix(data, n - 1), data[n])

Unsorted(data) ==
    Return(data)

SortedByDay(data) ==
    IF \E i \in 1..Len(data) : ~data[i].isdict THEN Raise("TypeError")
    ELSE IF \E i \in 1..Len(data) : "day" \notin data[i].keys THEN Raise("KeyError")
    ELSE Return(SortPrefix(data, Len(data)))

(* The live branch, given what the provider answered *)
FetchLive(http, data) ==
    IF http = "exception" THEN Raise("RequestException")
    ELSE IF http = "http_error" THEN Raise("HTTPError")
    ELSE SortedByDay(data)

----------------------------------------------------------------------------
(* run_once *)

Patients == 1..Len(tokens)

NoError == [kind |-> "none", patient |-> 0]

InitLocals ==
    /\ recs = <<>>
    /\ hours = <<>>
    /\ ret = NoRet
    /\ dry = FALSE
    /\ given = <<>>

Init ==
    /\ \E exists \in BOOLEAN, file \in ConfigFiles :
          LET cfg == LoadConfig(exists, file)
          IN  /\ tokens = TokensOf(cfg)
              /\ qualtrics = cfg.qualtrics
    /\ dry_flag \in BOOLEAN
    /\ deviation \in DeviationPool
    /\ min_hours \in MinHoursPool
    /\ pc = "fetch"
    /\ idx = 1
    /\ InitLocals
    /\ outcome = [p \in Patients |-> "pending"]
    /\ ouraCalls = [p \in Patients |-> 0]
    /\ posts = [p \in Patients |-> <<>>]
    /\ evaluated = [p \in Patients |-> FALSE]
    /\ error = NoError

(* An exception nobody catches leaves the for loop and run_once *)
AbortRun(kind) ==
    /\ error' = [kind |-> kind, patient |-> idx]
    /\ pc' = "aborted"
    /\ idx' = idx

(* The loop body ended normally: the for loop takes the next item, or ends *)
NextPatient ==
    /\ error' = error
    /\ IF idx < Len(tokens)
       THEN idx' = idx + 1 /\ pc' = "fetch"
       ELSE idx' = idx /\ pc' = "done"

(* recs = fetch_sleep_json(token, days=8) *)
Fetch ==
    /\ pc = "fetch"
    /\ \E data \in Datasets, http \in HttpOutcomes :
          LET live == ~UseSample(tokens[idx])
              got == IF live THEN FetchLive(http, data) ELSE Return(data)
          IN  /\ ouraCalls' = IF live THEN [ouraCalls EXCEPT ![idx] = @ + 1]
                              ELSE ouraCalls
              /\ IF got.exc = "none"
                 THEN /\ recs' = got.val
                      /\ pc' = "evaluate"
                      /\ outcome' = [outcome EXCEPT ![idx] = "fetched"]
                      /\ UNCHANGED <<idx, error>>
                 ELSE /\ recs' = recs
                      /\ outcome' = [outcome EXCEPT ![idx] = "fetch_failed"]
                      /\ AbortRun(got.exc)
    /\ UNCHANGED <<tokens, qualtrics, dry_flag, deviation, min_hours, hours, dry,
                   posts, evaluated, ret, given>>

(* hours = nightly_totals(recs); the metrics; should_trigger(...) *)
Evaluate ==
    /\ pc = "evaluate"
    /\ LET hrs == NightlyTotals(recs)
           m == Metrics(hrs)
           r == ShouldTrigger(hrs, deviation, min_hours)
       IN  /\ hours' = hrs
           /\ IF m.exc # "none"
              THEN /\ outcome' = [outcome EXCEPT ![idx] = "eval_failed"]
                   /\ evaluated' = evaluated
                   /\ AbortRun(m.exc)
              ELSE IF r.exc # "none"
              THEN /\ outcome' = [outcome EXCEPT ![idx] = "eval_failed"]
                   /\ evaluated' = evaluated
                   /\ AbortRun(r.exc)
              ELSE /\ evaluated' = [evaluated EXCEPT ![idx] = TRUE]
                   /\ IF Truthy(r.val)
                      THEN /\ pc' = "send_email"
                           /\ outcome' = [outcome EXCEPT ![idx] = "triggered"]
                           /\ UNCHANGED <<idx, error>>
                      ELSE /\ outcome' = [outcome EXCEPT ![idx] = "no_trigger"]
                           /\ NextPatient
    /\ UNCHANGED <<tokens, qualtrics, dry_flag, deviation, min_hours, recs, dry,
                   ouraCalls, posts, ret, given>>

----------------------------------------------------------------------------
(* send_qualtrics_survey *)

(* qt.get("api_token", DUMMY) *)
ApiToken(qt) ==
    IF qt.has_token THEN qt.api_token ELSE Str(DUMMY)

(* if api_token.startswith(DUMMY): dry = True *)
EffectiveDryAsAsked(qt, d) ==
    d

EffectiveDry(qt, d) ==
    IF StartsWith(ApiToken(qt), DUMMY) THEN TRUE ELSE d

(* requests.post(...): the response is not looked at; only a transport failure raises *)
PostChecked(http) ==
    IF http = "exception" THEN Raise("RequestException")
    ELSE IF http = "http_error" THEN Raise("HTTPError")
    ELSE Return(http)

Post(http) ==
    IF http = "exception" THEN Raise("RequestException") ELSE Return(http)

(* From the entry of send_qualtrics_survey to the end of the email branch *)
SendEmail ==
    /\ pc = "send_email"
    /\ LET d == EffectiveDry(qualtrics, dry_flag)
       IN  /\ dry' = d
           /\ IF d
              THEN /\ pc' = "send_sms"
                   /\ UNCHANGED <<posts, outcome, idx, error>>
              ELSE \E http \in HttpOutcomes :
                      LET r == Post(http)
                      IN  /\ posts' = [posts EXCEPT ![idx] =
                                          Append(@, [to |-> "email", http |-> http])]
                          /\ IF r.exc = "none"
                             THEN /\ pc' = "send_sms"
                                  /\ UNCHANGED <<outcome, idx, error>>
                             ELSE /\ outcome' = [outcome EXCEPT ![idx] = "send_failed"]
                                  /\ AbortRun(r.exc)
    /\ UNCHANGED <<tokens, qualtrics, dry_flag, deviation, min_hours, recs, hours,
                   ouraCalls, evaluated, ret, given>>

(* The SMS branch, to the return of send_qualtrics_survey *)
SendSms ==
    /\ pc = "send_sms"
    /\ IF dry
       THEN /\ outcome' = [outcome EXCEPT ![idx] = "dry_run"]
            /\ NextPatient
            /\ posts' = posts
       ELSE \E http \in HttpOutcomes :
               LET r == Post(http)
               IN  /\ posts' = [posts EXCEPT ![idx] =
                                   Append(@, [to |-> "sms", http |-> http])]
                   /\ IF r.exc = "none"
                      THEN /\ outcome' = [outcome EXCEPT ![idx] = "sent"]
                           /\ NextPatient
                      ELSE /\ outcome' = [outcome EXCEPT ![idx] = "send_failed"]
                           /\ AbortRun(r.exc)
    /\ UNCHANGED <<tokens, qualtrics, dry_flag, deviation, min_hours, recs, hours,
                   dry, ouraCalls, evaluated, ret, given>>

Next ==
    \/ Fetch
    \/ Evaluate
    \/ SendEmail
    \/ SendSms

Spec == Init /\ [][Next]_vars

----------------------------------------------------------------------------
(* nightly_totals on its own, over bounded raw inputs: any records at the    *)
(* head, then a run of qualifying nights                                     *)

HeadPool ==
    {NonDict,
     Dict(AllKeys, "rest", Hrs5, 1),
     Dict({"type", "day"}, "long_sleep", 0, 1),
     Dict({"total_sleep_duration", "day"}, "", Hrs5, 1),
     Dict({"type", "total_sleep_duration"}, "long_sleep", Hrs3h, 0),
     LongSleep(Hrs9h, 1)}

TailDurations == <<Hrs7, Hrs5, 0>>

TailRuns ==
    {[i \in 1..k |-> LongSleep(TailDurations[((i + o) % 3) + 1], i)] :
        k \in 0..MaxTail, o \in 0..1}

NormInputs ==
    {h \o t : h \in SeqsUpTo(HeadPool, MaxHead), t \in TailRuns}

NoRun ==
    /\ tokens = <<>>
    /\ qualtrics = [has_token |-> FALSE, api_token |-> None]
    /\ dry_flag = FALSE
    /\ idx = 0
    /\ dry = FALSE
    /\ outcome = <<>>
    /\ ouraCalls = <<>>
    /\ posts = <<>>
    /\ evaluated = <<>>
    /\ error = NoError

InitNorm ==
    /\ NoRun
    /\ recs \in NormInputs
    /\ given = recs
    /\ hours = <<>>
    /\ ret = NoRet
    /\ deviation = RInt(0)
    /\ min_hours = RInt(0)
    /\ pc = "call"

CallNightlyTotals ==
    /\ pc = "call"
    /\ hours' = NightlyTotals(recs)
    /\ pc' = "nightly_totals"
    /\ UNCHANGED <<tokens, qualtrics, dry_flag, deviation, min_hours, idx, recs, ret,
                   dry, outcome, ouraCalls, posts, evaluated, error, given>>

NextNorm ==
    CallNightlyTotals

SpecNorm == InitNorm /\ [][NextNorm]_vars

----------------------------------------------------------------------------
(* should_trigger and the metrics of run_once on their own, over bounded     *)
(* series of any length up to MaxLen                                         *)

BaseHours == {ToHours(0), ToHours(Hrs7)}

LastHours == {ToHours(0), ToHours(Hrs3h), ToHours(Hrs7), ToHours(Hrs9h)}

EvalInputs ==
    {<<>>} \cup UNION {{Append(b, l) : b \in [1..(n - 1) -> BaseHours], l \in LastHours} :
                          n \in 1..MaxLen}

EvalDeviations == {RInt(-1), RInt(0), RInt(25)}

EvalMinHours == {RInt(0), RInt(4)}

InitEval ==
    /\ NoRun
    /\ recs = <<>>
    /\ given = <<>>
    /\ hours \in EvalInputs
    /\ deviation \in EvalDeviations
    /\ min_hours \in EvalMinHours
    /\ ret = NoRet
    /\ pc = "call"

CallShouldTrigger ==
    /\ pc = "call"
    /\ ret' = ShouldTrigger(hours, deviation, min_hours)
    /\ pc' = "should_trigger"
    /\ UNCHANGED <<tokens, qualtrics, dry_flag, deviation, min_hours, idx, recs, hours,
                   dry, outcome, ouraCalls, posts, evaluated, error, given>>

CallMetrics ==
    /\ pc = "call"
    /\ ret' = Metrics(hours)
    /\ pc' = "metrics"
    /\ UNCHANGED <<tokens, qualtrics, dry_flag, deviation, min_hours, idx, recs, hours,
                   dry, outcome, ouraCalls, posts, evaluated, error, given>>

NextEval ==
    \/ CallShouldTrigger
    \/ CallMetrics

SpecEval == InitEval /\ [][NextEval]_vars

----------------------------------------------------------------------------
(* The trigger rule as the specification words it, for the properties below *)

RuleLast(hrs) ==
    hrs[Len(hrs)]

RuleBaseline(hrs) ==
    RMul(RSum(SubSeq(hrs, 1, Len(hrs) - 1)), Rat(1, Len(hrs) - 1))

RulePercentChange(hrs) ==
    LET last == RuleLast(hrs)
        base == RuleBaseline(hrs)
        diff == RAbs(RSub(last, base))
    IN  IF base[1] = 0 THEN RInt(0)
        ELSE Rat(diff[1] * base[2] * 100, diff[2] * base[1])

RuleTriggered(hrs, dev, minh) ==
    \/ RLt(RuleLast(hrs), minh)
    \/ RLt(dev, RulePercentChange(hrs))

Dispatched(p) ==
    outcome[p] \in {"triggered", "dry_run", "sent", "send_failed"}

----------------------------------------------------------------------------
(* C1: a patient's failure never ends the run for the others: when the run  *)
(* is over, no patient that follows a failed one is left unprocessed.       *)
C1_FailureIsolation ==
    \A p, q \in Patients :
       (p < q /\ outcome[p] \in {"fetch_failed", "eval_failed", "send_failed"}
          /\ pc \in {"done", "aborted"})
       => outcome[q] # "pending"

(* C2: for a series of at least 8 nights and any thresholds, should_trigger *)
(* returns a true value exactly when last < min_hours or pct_change >       *)
(* deviation, pct_change being taken against the mean of the nights before  *)
(* the last.                                                                *)
C2_TriggerRule ==
    (pc = "should_trigger" /\ Len(hours) >= MinNights)
    => /\ ret.exc = "none"
       /\ Truthy(ret.val) <=> RuleTriggered(hours, deviation, min_hours)

(* C3: once a patient's normalized series is computed and has fewer than 8  *)
(* nights, the patient's processing has ended with the ValueError of        *)
(* should_trigger and nothing was posted for the patient.                   *)
C3_InsufficientData ==
    (/\ Len(hours) < MinNights
     /\ (idx > 1 \/ outcome[idx] \notin {"pending", "fetched", "fetch_failed"}))
    => /\ outcome[idx] = "eval_failed"
       /\ error = [kind |-> "ValueError", patient |-> idx]
       /\ posts[idx] = <<>>

(* C4: should_trigger raises ValueError, with nothing computed and no       *)
(* decision returned, exactly for the series of fewer than 8 entries.       *)
C4_LengthGuard ==
    pc = "should_trigger"
    => IF Len(hours) < 8
       THEN ret.exc = "ValueError" /\ ret.computed = {}
       ELSE ret.exc # "ValueError"

C4_Witness ==
    /\ pc = "should_trigger"
    /\ Len(hours) = 7
    /\ ret.exc = "ValueError"

(* A token the specification calls a placeholder: it starts with "xxx" *)
IsPlaceholder(s) ==
    Len(s) >= 3 /\ s[1] = "x" /\ s[2] = "x" /\ s[3] = "x"

(* C5: with a placeholder or missing survey-provider token the dispatch is  *)
(* a dry run for the email and for the SMS whatever dry_flag is, and a dry  *)
(* run posts nothing to the survey provider.                                *)
C5_PlaceholderForcesDryRun ==
    /\ (~qualtrics.has_token \/ IsPlaceholder(qualtrics.api_token.s))
       => /\ \A p \in Patients : posts[p] = <<>> /\ outcome[p] # "sent"
          /\ pc = "send_sms" => dry
    /\ (pc = "send_sms" /\ dry) => posts[idx] = <<>>
    /\ \A p \in Patients : outcome[p] = "dry_run" => posts[p] = <<>>

C5_Witness ==
    /\ ~dry_flag
    /\ qualtrics.has_token
    /\ IsPlaceholder(qualtrics.api_token.s)
    /\ \E p \in Patients : outcome[p] = "dry_run"

(* C6: a patient whose token is absent, empty or a placeholder never causes *)
(* a request to the sleep provider; any other patient causes exactly one    *)
(* once fetched, and the records fetched live are in ascending day order.   *)
C6_OfflineFallback ==
    \A p \in Patients :
       IF tokens[p].isnone \/ tokens[p].s = <<>> \/ IsPlaceholder(tokens[p].s)
       THEN ouraCalls[p] = 0
       ELSE /\ ouraCalls[p] = IF outcome[p] = "pending" THEN 0 ELSE 1
            /\ (p = idx /\ pc = "evaluate")
               => \A i, j \in 1..Len(recs) : i < j => recs[i].day <= recs[j].day

C6_Witness ==
    /\ Len(tokens) = 2
    /\ IsPlaceholder(tokens[1].s)
    /\ Len(tokens[1].s) > 3
    /\ outcome[1] = "no_trigger"
    /\ ouraCalls = <<0, 1>>
    /\ pc = "evaluate"
    /\ Len(recs) = 9

(* C7: a real dispatch posts the email and then the SMS, and a dispatch in  *)
(* which the survey provider answered a post with an HTTP failure never     *)
(* completes as sent.                                                       *)
C7_DispatchFailureReported ==
    \A p \in Patients :
       /\ Len(posts[p]) <= 2
       /\ \A i \in 1..Len(posts[p]) : posts[p][i].to = <<"email", "sms">>[i]
       /\ (\E i \in 1..Len(posts[p]) : posts[p][i].http = "http_error")
          => outcome[p] # "sent"

(* C8: for a series of at least 8 nights neither should_trigger nor the     *)
(* metrics of run_once raises ZeroDivisionError; with a zero baseline the   *)
(* percent change is 0 and the decision is last < min_hours or 0 >          *)
(* deviation.                                                               *)
C8_ZeroBaseline ==
    Len(hours) >= MinNights
    => /\ pc = "should_trigger"
          => /\ ret.exc = "none"
             /\ RIsZero(RuleBaseline(hours))
                => (Truthy(ret.val) <=> (\/ RLt(RuleLast(hours), min_hours)
                                         \/ RLt(deviation, RInt(0))))
       /\ pc = "metrics"
          => /\ ret.exc = "none"
             /\ RIsZero(RuleBaseline(hours)) => ret.val.pct_change = RInt(0)

(* The part of C8 that is about division only *)
C8_NoZeroDivision ==
    (Len(hours) >= MinNights /\ pc \in {"should_trigger", "metrics"})
    => /\ ret.exc = "none"
       /\ (pc = "metrics" /\ RIsZero(RuleBaseline(hours)))
          => ret.val.pct_change = RInt(0)

(* The qualifying records of an input, by position *)
QualifyingIndexes(rs) ==
    {i \in 1..Len(rs) : /\ rs[i].isdict
                        /\ "type" \in rs[i].keys
                        /\ rs[i].type = "long_sleep"
                        /\ "total_sleep_duration" \in rs[i].keys}

KthOf(Q, k) ==
    CHOOSE i \in Q : Cardinality({q \in Q : q <= i}) = k

(* C9: nightly_totals returns the durations, in hours, of the qualifying    *)
(* records (dicts of type long_sleep that have a total_sleep_duration), in  *)
(* input order, cut to the last 8, and leaves its input as it was.          *)
C9_NormalizerResult ==
    pc = "nightly_totals"
    => LET Q == QualifyingIndexes(given)
           n == Cardinality(Q)
           m == IF n < 8 THEN n ELSE 8
       IN  /\ recs = given
           /\ Len(hours) = m
           /\ \A j \in 1..m :
                 /\ hours[j][2] > 0
                 /\ hours[j][1] * 3600
                    = given[KthOf(Q, n - m + j)].total_sleep_duration * hours[j][2]

C9_Witness ==
    /\ pc = "nightly_totals"
    /\ Cardinality(QualifyingIndexes(given)) > 8
    /\ \E i \in 1..Len(given) : i \notin QualifyingIndexes(given)
    /\ Len(hours) = 8
    /\ hours[1] # hours[2]

(* The patient that hours was last computed and evaluated for *)
LastEvaluated ==
    IF \E p \in Patients : evaluated[p]
    THEN CHOOSE p \in Patients : evaluated[p] /\ \A q \in Patients : evaluated[q] => q <= p
    ELSE 0

(* C10: patients are processed in configuration order; a patient is         *)
(* dispatched for only after its evaluation, each payload is posted at most *)
(* once, and an evaluated patient is dispatched for exactly when last <     *)
(* min_hours or pct_change > deviation.                                     *)
C10_DispatchFollowsDecision ==
    \A p \in Patients :
       /\ (Dispatched(p) \/ posts[p] # <<>>) => evaluated[p]
       /\ p > idx => outcome[p] = "pending"
       /\ p < idx => outcome[p] \in {"no_trigger", "dry_run", "sent"}
       /\ Len(posts[p]) <= 2
       /\ \A i \in 1..Len(posts[p]) : posts[p][i].to = <<"email", "sms">>[i]
       /\ (p = LastEvaluated /\ outcome[idx] # "eval_failed")
          => (Dispatched(p) <=> RuleTriggered(hours, deviation, min_hours))

====
